---- MODULE Spec2Model ----
(***************************************************************************)
(* Model of the match-record query layer (models/data_manager.py) and of   *)
(* the fixed 5-slot team container (models/team_routines.py), with the     *)
(* frame cursor of models/visualization_manager.py.                        *)
(*                                                                         *)
(* The Game record is immutable after construction, so the state is the    *)
(* record, the call in progress and the value (or exception) it produced.  *)
(* Python values are modelled as follows:                                  *)
(*   - an Optional section is <<>> (None) or <<x>> (the value x);          *)
(*   - a list is a sequence, indexed from 0 by PyGetItem, which wraps      *)
(*     negative indices the way list.__getitem__ does;                     *)
(*   - a call produces Ok(value) or Err(exception);                        *)
(*   - a dict is a sequence of (key, value) entries in insertion order;    *)
(*   - a frozenset of str iterates in hash order, which is fixed by the    *)
(*     interpreter's hash seed and not by insertion order.                 *)
(***************************************************************************)
EXTENDS Integers, Sequences, FiniteSets, TLC

VARIABLES data, call, result,
          current_round_index, current_frame_index, drawn

\* The VisualizationManager: its cursor and the frame its figure shows,
\* None before the first drawing.
viz == <<current_round_index, current_frame_index, drawn>>

vars == <<data, call, result, viz>>

\* ------------------------------------------------------------------ bounds
MaxRounds == 2
MaxFrames == 3

\* Number of player slots of a team (team_routines.py, line 12).
TeamSize == 5

\* ------------------------------------------------------------ python values
None == <<>>
Some(x) == <<x>>

Ok(v) == [ok |-> TRUE, val |-> v]
Err(e) == [ok |-> FALSE, err |-> e]

ErrNoRounds == "ValueError: This game has no round data."
ErrRoundBounds == "ValueError: Round index out of bounds"
ErrNoFrames == "ValueError: No frames found in round"
ErrFrameBounds == "ValueError: Frame index out of bounds"
ErrNoPlayers == "ValueError: No player info found for team"
ErrRoster == "ValueError: Invalid number of player routines received"
ErrIndex == "IndexError: list index out of range"
ErrKey == "KeyError"
ErrRangeStep == "ValueError: range() arg 3 must not be zero"
ErrSide == "ValueError: invalid side"

Min(a, b) == IF a < b THEN a ELSE b

\* list[i] of Python: 0-based, a negative index counts from the end.
PyGetItem(s, i) ==
    IF 0 <= i /\ i < Len(s) THEN Ok(s[i + 1])
    ELSE IF i < 0 /\ -Len(s) <= i THEN Ok(s[Len(s) + i + 1])
    ELSE Err(ErrIndex)

\* list(range(start, stop, step)) of Python.
PyRange(start, stop, step) ==
    IF step = 0 THEN Err(ErrRangeStep)
    ELSE IF step > 0
         THEN IF stop <= start THEN Ok(<<>>)
              ELSE Ok([k \in 1..(((stop - start - 1) \div step) + 1) |-> start + (k - 1) * step])
         ELSE IF stop >= start THEN Ok(<<>>)
              ELSE Ok([k \in 1..(((start - stop - 1) \div (-step)) + 1) |-> start + (k - 1) * step])

\* list[lo:hi] of Python for 0 <= lo and 0 <= hi <= len(list).
PySlice(s, lo, hi) == SubSeq(s, lo + 1, hi)

\* ------------------------------------------------------------- the records
\* Player names; one more than a team holds, so that a frame can list a
\* name that is not on the roster.
PlayerNames == <<"ann", "bob", "cat", "dan", "eve", "fay">>

NameIdx(n) == CHOOSE i \in DOMAIN PlayerNames : PlayerNames[i] = n

Sides == {"t", "ct"}

SideOffset(side) == IF side = "t" THEN 0 ELSE 50

\* The name lists a side of a frame can hold.  "canon" is the five roster
\* names; the others permute it, drop a player, list a player twice or list
\* a sixth name; "none" is an absent player list.
ListKinds == {"canon", "swap", "drop", "dup", "extra", "none"}

NamesOf(kind) ==
    CASE kind = "canon" -> <<"ann", "bob", "cat", "dan", "eve">>
      [] kind = "swap"  -> <<"bob", "ann", "cat", "dan", "eve">>
      [] kind = "drop"  -> <<"ann", "bob", "cat", "dan">>
      [] kind = "dup"   -> <<"ann", "bob", "cat", "dan", "eve", "ann">>
      [] kind = "extra" -> <<"ann", "bob", "cat", "dan", "eve", "fay">>

\* A PlayerInfo.  The field values differ between sides, frames, names and
\* list positions, so that a value read from the wrong place is visible.
PlayerInfo(side, tick, pos, n) ==
    [name    |-> n,
     x       |-> 10 * tick + pos,
     y       |-> SideOffset(side) + NameIdx(n),
     hp      |-> 100 - 10 * pos - (tick % 10),
     isAlive |-> ((pos + tick) % 2 = 0),
     side    |-> side]

TeamFrameState(side, r, f, kind) ==
    [players      |-> IF kind = "none" THEN None
                      ELSE Some([pos \in 1..Len(NamesOf(kind)) |->
                                   PlayerInfo(side, 100 * r + f, pos, NamesOf(kind)[pos])]),
     alivePlayers |-> IF side = "ct" THEN TeamSize - (f % TeamSize) ELSE f % TeamSize,
     teamEqVal    |-> 1000 * r + 100 * f + (IF side = "ct" THEN 3800 ELSE 1800)]

\* Frame f (from 0) of round r (from 0); kinds = <<T list kind, CT list kind>>.
GameFrame(r, f, kinds) ==
    [tick      |-> 100 * r + f,
     clockTime |-> 115 - f,
     t         |-> TeamFrameState("t", r, f, kinds[1]),
     ct        |-> TeamFrameState("ct", r, f, kinds[2])]

\* Round r (from 0); frameKinds is None or Some(sequence of kind pairs).
GameRound(r, frameKinds) ==
    [frames         |-> IF frameKinds = None THEN None
                        ELSE Some([f \in 1..Len(frameKinds[1]) |->
                                     GameFrame(r, f - 1, frameKinds[1][f])]),
     winningSide    |-> IF r % 2 = 0 THEN "CT" ELSE "T",
     roundEndReason |-> IF r % 2 = 0 THEN "BombDefused" ELSE "TerroristsWin"]

Game(roundKinds) ==
    [mapName    |-> "de_dust2",
     gameRounds |-> IF roundKinds = None THEN None
                    ELSE Some([r \in 1..Len(roundKinds[1]) |->
                                 GameRound(r - 1, roundKinds[1][r])])]

\* ------------------------------------------------------------ DataManager
\* DataManager.__get_game_rounds
get_game_rounds(d) ==
    IF d.gameRounds = None THEN Err(ErrNoRounds) ELSE Ok(d.gameRounds[1])

\* DataManager.get_game_round
get_game_round(d, round_index) ==
    LET rounds == get_game_rounds(d) IN
    IF ~rounds.ok THEN rounds
    ELSE IF round_index >= Len(rounds.val) THEN Err(ErrRoundBounds)
    ELSE PyGetItem(rounds.val, round_index)

\* __get_frames with `round_data['frames'] or []` in place of the None check.
get_frames_no_check(d, round_id) ==
    LET round_data == get_game_round(d, round_id) IN
    IF ~round_data.ok THEN round_data
    ELSE IF round_data.val.frames = None THEN Ok(<<>>)
    ELSE Ok(round_data.val.frames[1])

\* DataManager.__get_frames
get_frames(d, round_id) ==
    LET round_data == get_game_round(d, round_id) IN
    IF ~round_data.ok THEN round_data
    ELSE IF round_data.val.frames = None THEN Err(ErrNoFrames)
    ELSE Ok(round_data.val.frames[1])

\* get_frame with `frame_id > len(frames)` as its bounds check.
get_frame_off_by_one(d, round_id, frame_id) ==
    LET frames == get_frames(d, round_id) IN
    IF ~frames.ok THEN frames
    ELSE IF frame_id > Len(frames.val) THEN Err(ErrFrameBounds)
    ELSE PyGetItem(frames.val, frame_id)

\* DataManager.get_frame
get_frame(d, round_id, frame_id) ==
    LET frames == get_frames(d, round_id) IN
    IF ~frames.ok THEN frames
    ELSE IF frame_id >= Len(frames.val) THEN Err(ErrFrameBounds)
    ELSE PyGetItem(frames.val, frame_id)

\* frame[team.value]
TeamOfFrame(frame, team) == IF team = "t" THEN frame.t ELSE frame.ct

\* DataManager.__get_player_info_list
get_player_info_list(d, round_index, frame_index, team) ==
    LET frame == get_frame(d, round_index, frame_index) IN
    IF ~frame.ok THEN frame
    ELSE IF TeamOfFrame(frame.val, team).players = None THEN Err(ErrNoPlayers)
    ELSE Ok(TeamOfFrame(frame.val, team).players[1])

\* DataManager.get_player_at_frame
get_player_at_frame(d, player_index, team, round_index, frame_index) ==
    LET players == get_player_info_list(d, round_index, frame_index, team) IN
    IF ~players.ok THEN players ELSE PyGetItem(players.val, player_index)

\* DataManager.is_player_alive
is_player_alive(d, player_index, team, round_index, frame_index) ==
    LET player == get_player_at_frame(d, player_index, team, round_index, frame_index) IN
    IF ~player.ok THEN player ELSE Ok(player.val.isAlive)

\* DataManager.get_player_hp
get_player_hp(d, player_index, team, round_index, frame_index) ==
    LET player == get_player_at_frame(d, player_index, team, round_index, frame_index) IN
    IF ~player.ok THEN player ELSE Ok(player.val.hp)

\* TeamType.from_str: the strict mapping of a side string to the enum.
TeamType_from_str(s) ==
    IF s = "T" THEN Ok("TeamType.T")
    ELSE IF s = "CT" THEN Ok("TeamType.CT")
    ELSE Err(ErrSide)

\* Player.from_player_info: the per-player entry of a RoundStats.
Player_from_player_info(player_info) ==
    [name |-> player_info.name, hp |-> player_info.hp,
     is_alive |-> player_info.isAlive, side |-> player_info.side]

\* get_round_stats reading the alive count and the equipment value of the
\* T side of the frame.
get_round_stats_t_side(d, round_index, frame_index) ==
    LET round == get_game_round(d, round_index)
        frame == get_frame(d, round_index, frame_index)
        winning_side == TeamType_from_str(round.val.winningSide)
        player_infos == get_player_info_list(d, round_index, frame_index, "t")
    IN
    IF ~round.ok THEN round
    ELSE IF ~frame.ok THEN frame
    ELSE IF ~winning_side.ok THEN winning_side
    ELSE IF ~player_infos.ok THEN player_infos
    ELSE Ok([players |-> [i \in DOMAIN player_infos.val |->
                            Player_from_player_info(player_infos.val[i])],
             winning_side |-> winning_side.val,
             round_end_reason |-> round.val.roundEndReason,
             opponents_alive |-> frame.val.t.alivePlayers,
             opponent_equipment_value |-> frame.val.t.teamEqVal,
             clock_time |-> frame.val.clockTime])

\* DataManager.get_round_stats
get_round_stats(d, round_index, frame_index) ==
    LET round == get_game_round(d, round_index)
        frame == get_frame(d, round_index, frame_index)
        winning_side == TeamType_from_str(round.val.winningSide)
        player_infos == get_player_info_list(d, round_index, frame_index, "t")
    IN
    IF ~round.ok THEN round
    ELSE IF ~frame.ok THEN frame
    ELSE IF ~winning_side.ok THEN winning_side
    ELSE IF ~player_infos.ok THEN player_infos
    ELSE Ok([players |-> [i \in DOMAIN player_infos.val |->
                            Player_from_player_info(player_infos.val[i])],
             winning_side |-> winning_side.val,
             round_end_reason |-> round.val.roundEndReason,
             opponents_alive |-> frame.val.ct.alivePlayers,
             opponent_equipment_value |-> frame.val.ct.teamEqVal,
             clock_time |-> frame.val.clockTime])

\* DataManager.__get_players_from_team_from_frame
get_players_from_team_from_frame(frame, team) ==
    IF TeamOfFrame(frame, team).players = None THEN Err(ErrNoPlayers)
    ELSE Ok(TeamOfFrame(frame, team).players[1])

\* --------------------------------------------------------------- routines
\* Routine(): an empty sequence of points; Routine.add_point appends one.
Routine == <<>>

add_point(routine, x, y) == Append(routine, <<x, y>>)

\* from_routines_list rejecting only the inputs shorter than five.
from_routines_list_at_least(routines) ==
    IF Len(routines) < TeamSize THEN Err(ErrRoster)
    ELSE Ok([routines |-> <<routines[1], routines[2], routines[3], routines[4], routines[5]>>])

\* TeamRoutines.from_routines_list (called as Team.from_routines_list by
\* DataManager.get_all_team_routines).
from_routines_list(routines) ==
    IF Len(routines) # TeamSize THEN Err(ErrRoster)
    ELSE Ok([routines |-> <<routines[1], routines[2], routines[3], routines[4], routines[5]>>])

\* The orders in which a frozenset of names can iterate: each is the order
\* of the names' hash slots under one hash seed.
HashOrders ==
    {<<"ann", "bob", "cat", "dan", "eve", "fay">>,
     <<"fay", "eve", "dan", "cat", "bob", "ann">>,
     <<"cat", "ann", "fay", "bob", "eve", "dan">>}

\* The iteration order of frozenset(names) under hash order `order`.
FrozensetIter(names, order) ==
    SelectSeq(order, LAMBDA n : \E i \in DOMAIN names : names[i] = n)

\* {player_name: list() for player_name in names}
NewRoutinesDict(names) ==
    [i \in DOMAIN names |-> [name |-> names[i], routines |-> <<>>]]

\* for player_name in names: routines[player_name].append(Routine())
AppendRoutines(dict) ==
    [i \in DOMAIN dict |-> [dict[i] EXCEPT !.routines = Append(@, Routine)]]

\* AddPlayerPoint adding the point to the player's first routine, [0].
AddPlayerPoint_first(dict, player) ==
    IF \A i \in DOMAIN dict : dict[i].name # player.name THEN Err(ErrKey)
    ELSE Ok([i \in DOMAIN dict |->
               IF dict[i].name = player.name
               THEN LET rs == dict[i].routines IN
                    [dict[i] EXCEPT !.routines =
                       [rs EXCEPT ![1] = add_point(rs[1], player.x, player.y)]]
               ELSE dict[i]])

\* routines[player['name']][-1].add_point(player['x'], player['y'])
AddPlayerPoint(dict, player) ==
    IF \A i \in DOMAIN dict : dict[i].name # player.name THEN Err(ErrKey)
    ELSE Ok([i \in DOMAIN dict |->
               IF dict[i].name = player.name
               THEN LET rs == dict[i].routines IN
                    [dict[i] EXCEPT !.routines =
                       [rs EXCEPT ![Len(rs)] = add_point(rs[Len(rs)], player.x, player.y)]]
               ELSE dict[i]])

\* for player in players[k..]: add the player's point
RECURSIVE AddPlayerPoints(_, _, _)
AddPlayerPoints(dict, players, k) ==
    IF k > Len(players) THEN Ok(dict)
    ELSE LET r == AddPlayerPoint(dict, players[k]) IN
         IF ~r.ok THEN r ELSE AddPlayerPoints(r.val, players, k + 1)

\* AddFrame adding the CT players' points to the T side's routines.
AddFrame_t_twice(dicts, frame) ==
    LET tp == get_players_from_team_from_frame(frame, "t")
        tr == AddPlayerPoints(dicts.t, tp.val, 1)
        cp == get_players_from_team_from_frame(frame, "ct")
        cr == AddPlayerPoints(tr.val, cp.val, 1)
    IN
    IF ~tp.ok THEN tp
    ELSE IF ~tr.ok THEN tr
    ELSE IF ~cp.ok THEN cp
    ELSE IF ~cr.ok THEN cr
    ELSE Ok([t |-> cr.val, ct |-> dicts.ct])

\* The body of `for frame in chunk`: the T players, then the CT players.
AddFrame(dicts, frame) ==
    LET tp == get_players_from_team_from_frame(frame, "t")
        tr == AddPlayerPoints(dicts.t, tp.val, 1)
        cp == get_players_from_team_from_frame(frame, "ct")
        cr == AddPlayerPoints(dicts.ct, cp.val, 1)
    IN
    IF ~tp.ok THEN tp
    ELSE IF ~tr.ok THEN tr
    ELSE IF ~cp.ok THEN cp
    ELSE IF ~cr.ok THEN cr
    ELSE Ok([t |-> tr.val, ct |-> cr.val])

RECURSIVE AddFrames(_, _, _)
AddFrames(dicts, chunk, k) ==
    IF k > Len(chunk) THEN Ok(dicts)
    ELSE LET r == AddFrame(dicts, chunk[k]) IN
         IF ~r.ok THEN r ELSE AddFrames(r.val, chunk, k + 1)

\* batch_frames yielding the full chunks only: the trailing shorter chunk
\* is lost.
batch_frames_full_only(frames, chunk_size) ==
    LET frame_count == Len(frames)
        indices == PyRange(0, frame_count, chunk_size)
    IN
    IF ~indices.ok THEN indices
    ELSE Ok([k \in DOMAIN SelectSeq(indices.val, LAMBDA i : i + chunk_size <= frame_count) |->
               PySlice(frames, indices.val[k], indices.val[k] + chunk_size)])

\* batch_frames: the chunks the generator yields, or the error of range().
batch_frames(frames, chunk_size) ==
    LET frame_count == Len(frames)
        indices == PyRange(0, frame_count, chunk_size)
    IN
    IF ~indices.ok THEN indices
    ELSE Ok([k \in DOMAIN indices.val |->
               PySlice(frames, indices.val[k], Min(indices.val[k] + chunk_size, frame_count))])

\* The body of `for chunk in batch_frames(...)`, from chunk k on.
RECURSIVE AddChunks(_, _, _)
AddChunks(dicts, chunks, k) ==
    IF k > Len(chunks) THEN Ok(dicts)
    ELSE LET started == [t |-> AppendRoutines(dicts.t), ct |-> AppendRoutines(dicts.ct)]
             r == AddFrames(started, chunks[k], 1)
         IN
         IF ~r.ok THEN r ELSE AddChunks(r.val, chunks, k + 1)

\* list(routines.values())
DictValues(dict) == [i \in DOMAIN dict |-> dict[i].routines]

PlayerNamesOfList(players) == [i \in DOMAIN players |-> players[i].name]

\* DataManager.get_all_team_routines, run under hash order `order`.
get_all_team_routines(d, round_index, routine_length, order) ==
    LET frames == get_frames(d, round_index)
        t_list == get_player_info_list(d, round_index, 0, "t")
        ct_list == get_player_info_list(d, round_index, 0, "ct")
        t_side_player_names == FrozensetIter(PlayerNamesOfList(t_list.val), order)
        ct_side_player_names == FrozensetIter(PlayerNamesOfList(ct_list.val), order)
        chunks == batch_frames(frames.val, routine_length)
        filled == AddChunks([t |-> NewRoutinesDict(t_side_player_names),
                             ct |-> NewRoutinesDict(ct_side_player_names)],
                            chunks.val, 1)
        t_side == from_routines_list(DictValues(filled.val.t))
        ct_side == from_routines_list(DictValues(filled.val.ct))
    IN
    IF ~frames.ok THEN frames
    ELSE IF ~t_list.ok THEN t_list
    ELSE IF ~ct_list.ok THEN ct_list
    ELSE IF ~chunks.ok THEN chunks
    ELSE IF ~filled.ok THEN filled
    ELSE IF ~t_side.ok THEN t_side
    ELSE IF ~ct_side.ok THEN ct_side
    ELSE Ok([t_side |-> t_side.val, ct_side |-> ct_side.val])

\* --------------------------------------------------- VisualizationManager
ErrDrawRound == "ValueError: Round index is out of bounds."
ErrDrawFrame == "ValueError: Frame index is out of bounds."

\* DataManager.get_round_count: the number of rounds of the match.
get_round_count(d) ==
    LET rounds == get_game_rounds(d) IN
    IF ~rounds.ok THEN rounds ELSE Ok(Len(rounds.val))

\* DataManager.get_frame_count: the number of frames of a round.
get_frame_count(d, round_index) ==
    LET frames == get_frames(d, round_index) IN
    IF ~frames.ok THEN frames ELSE Ok(Len(frames.val))

\* VisualizationManager._draw_frame at cursor (round, frame): the error it
\* raises, or the frame the figure shows afterwards.  The artists drawn are
\* reduced to the (round, frame) they were drawn from.
draw_frame(d, round, frame) ==
    LET max_rounds == get_round_count(d)
        max_frames == get_frame_count(d, round)
        current == get_frame(d, round, frame)
    IN
    IF ~max_rounds.ok THEN max_rounds
    ELSE IF ~max_frames.ok THEN max_frames
    ELSE IF round >= max_rounds.val THEN Err(ErrDrawRound)
    ELSE IF frame >= max_frames.val THEN Err(ErrDrawFrame)
    ELSE IF ~current.ok THEN current
    ELSE Ok(<<round, frame>>)

\* VisualizationManager.progress_visualization from cursor (round, frame):
\* the cursor it leaves and the value it returns or the error it raises.
progress_visualization(d, round, frame) ==
    LET max_rounds == get_round_count(d)
        max_frames == get_frame_count(d, round)
        rolls == frame >= max_frames.val - 1
        round1 == IF rolls THEN round + 1 ELSE round
        frame1 == IF rolls THEN 0 ELSE frame
        shown == draw_frame(d, round1, frame1 + 1)
    IN
    IF ~max_rounds.ok THEN [round |-> round, frame |-> frame, shown |-> max_rounds, ret |-> max_rounds]
    ELSE IF ~max_frames.ok THEN [round |-> round, frame |-> frame, shown |-> max_frames, ret |-> max_frames]
    ELSE IF round >= max_rounds.val - 1
         THEN [round |-> round, frame |-> frame, shown |-> Err("not drawn"), ret |-> Ok(FALSE)]
    ELSE IF rolls /\ round1 >= max_rounds.val
         THEN [round |-> round1, frame |-> frame1, shown |-> Err("not drawn"), ret |-> Ok(FALSE)]
    ELSE [round |-> round1, frame |-> frame1 + 1, shown |-> shown,
          ret |-> IF shown.ok THEN Ok(TRUE) ELSE shown]

\* ------------------------------------------------------------ the matches
\* The shapes of a match: per round, -1 (no frame section) or a frame count.
Shapes == UNION {[1..n -> (-1)..MaxFrames] : n \in 0..MaxRounds}

\* The list kinds the frames of a match hold: both rosters, one list absent,
\* or lists that depart from the roster.
SideKinds ==
    {<<"canon", "canon">>, <<"none", "canon">>, <<"canon", "none">>,
     <<"drop", "swap">>, <<"dup", "extra">>}

\* The matches of the accessor checks: any shape, every frame alike.
AccessGames ==
    {Game(None)} \cup
    {Game(Some([r \in DOMAIN shape |->
                  IF shape[r] = -1 THEN None
                  ELSE Some([f \in 1..shape[r] |-> kinds])])) :
        shape \in Shapes, kinds \in SideKinds}

\* The list kinds of one frame: at most one side departs from the roster.
FrameKinds ==
    {<<k, "canon">> : k \in ListKinds} \cup {<<"canon", k>> : k \in ListKinds}

\* The matches of the routine checks: one round, every frame on its own.
RoutineGames ==
    {Game(Some(<<None>>))} \cup
    {Game(Some(<<Some(fk)>>)) : fk \in UNION {[1..n -> FrameKinds] : n \in 0..MaxFrames}}

\* ------------------------------------------------------------- the calls
RoundIdx == (-1)..MaxRounds
FrameIdx == (-1)..MaxFrames
PlayerIdx == {0, TeamSize}
RoutineLengths == (-1)..MaxFrames

\* The inputs of from_routines_list: 0 to TeamSize + 1 routine lists, all
\* empty, or the list at position i holding i routines of i points each.
RoutineListInputs ==
    {[i \in 1..n |-> IF kind = "empty" THEN <<>>
                     ELSE [k \in 1..(IF kind = "one" THEN 1 ELSE i) |-> [j \in 1..i |-> <<i, j>>]]] :
        n \in 0..(TeamSize + 1), kind \in {"empty", "one", "many"}}

Idle == [op |-> "idle"]
NoResult == [ok |-> FALSE, err |-> "no call"]

Init ==
    /\ data \in AccessGames
    /\ call = Idle
    /\ result = NoResult
    /\ current_round_index = 0
    /\ current_frame_index = 0
    /\ drawn = None

InitRoutines ==
    /\ data \in RoutineGames
    /\ call = Idle
    /\ result = NoResult
    /\ current_round_index = 0
    /\ current_frame_index = 0
    /\ drawn = None

GetGameRound ==
    /\ call = Idle
    /\ \E ri \in RoundIdx :
         /\ call' = [op |-> "get_game_round", round_index |-> ri]
         /\ result' = get_game_round(data, ri)
    /\ UNCHANGED <<data, viz>>

GetFrame ==
    /\ call = Idle
    /\ \E ri \in RoundIdx, fi \in FrameIdx :
         /\ call' = [op |-> "get_frame", round_index |-> ri, frame_index |-> fi]
         /\ result' = get_frame(data, ri, fi)
    /\ UNCHANGED <<data, viz>>

GetPlayerAtFrame ==
    /\ call = Idle
    /\ \E pi \in PlayerIdx, team \in Sides, ri \in RoundIdx, fi \in FrameIdx :
         /\ call' = [op |-> "get_player_at_frame", player_index |-> pi, team |-> team,
                      round_index |-> ri, frame_index |-> fi]
         /\ result' = get_player_at_frame(data, pi, team, ri, fi)
    /\ UNCHANGED <<data, viz>>

IsPlayerAlive ==
    /\ call = Idle
    /\ \E pi \in PlayerIdx, team \in Sides, ri \in RoundIdx, fi \in FrameIdx :
         /\ call' = [op |-> "is_player_alive", player_index |-> pi, team |-> team,
                      round_index |-> ri, frame_index |-> fi]
         /\ result' = is_player_alive(data, pi, team, ri, fi)
    /\ UNCHANGED <<data, viz>>

GetPlayerHp ==
    /\ call = Idle
    /\ \E pi \in PlayerIdx, team \in Sides, ri \in RoundIdx, fi \in FrameIdx :
         /\ call' = [op |-> "get_player_hp", player_index |-> pi, team |-> team,
                      round_index |-> ri, frame_index |-> fi]
         /\ result' = get_player_hp(data, pi, team, ri, fi)
    /\ UNCHANGED <<data, viz>>

GetRoundStats ==
    /\ call = Idle
    /\ \E ri \in RoundIdx, fi \in FrameIdx :
         /\ call' = [op |-> "get_round_stats", round_index |-> ri, frame_index |-> fi]
         /\ result' = get_round_stats(data, ri, fi)
    /\ UNCHANGED <<data, viz>>

GetAllTeamRoutines(rounds) ==
    /\ call = Idle
    /\ \E ri \in rounds, len \in RoutineLengths, order \in HashOrders :
         /\ call' = [op |-> "get_all_team_routines", round_index |-> ri,
                      routine_length |-> len, hash_order |-> order]
         /\ result' = get_all_team_routines(data, ri, len, order)
    /\ UNCHANGED <<data, viz>>

FromRoutinesList ==
    /\ call = Idle
    /\ \E routines \in RoutineListInputs :
         /\ call' = [op |-> "from_routines_list", routines |-> routines]
         /\ result' = from_routines_list(routines)
    /\ UNCHANGED <<data, viz>>

\* The caller takes the value or the exception; the next call can start.
Return ==
    /\ call # Idle
    /\ call' = Idle
    /\ result' = NoResult
    /\ UNCHANGED <<data, viz>>

Next ==
    \/ GetGameRound
    \/ GetFrame
    \/ GetPlayerAtFrame
    \/ IsPlayerAlive
    \/ GetPlayerHp
    \/ GetRoundStats
    \/ GetAllTeamRoutines(RoundIdx)
    \/ Return

NextRoutines ==
    \/ GetAllTeamRoutines({0})
    \/ FromRoutinesList
    \/ Return

Spec == Init /\ [][Next]_vars

SpecRoutines == InitRoutines /\ [][NextRoutines]_vars

\* The matches of the cursor checks: any shape, both rosters in every frame.
VizGames ==
    {Game(None)} \cup
    {Game(Some([r \in DOMAIN shape |->
                  IF shape[r] = -1 THEN None
                  ELSE Some([f \in 1..shape[r] |-> <<"canon", "canon">>])])) :
        shape \in Shapes}

InitViz ==
    /\ data \in VizGames
    /\ call = Idle
    /\ result = NoResult
    /\ current_round_index = 0
    /\ current_frame_index = 0
    /\ drawn = None

DrawRoundStart ==
    /\ call = Idle
    /\ \E ri \in RoundIdx :
         LET shown == draw_frame(data, ri, 0) IN
         /\ call' = [op |-> "draw_round_start", round_index |-> ri]
         /\ current_round_index' = ri
         /\ current_frame_index' = 0
         /\ drawn' = IF shown.ok THEN Some(shown.val) ELSE drawn
         /\ result' = shown
    /\ UNCHANGED data

Revisualize ==
    /\ call = Idle
    /\ LET shown == draw_frame(data, current_round_index, current_frame_index) IN
         /\ call' = [op |-> "revisualize"]
         /\ drawn' = IF shown.ok THEN Some(shown.val) ELSE drawn
         /\ result' = shown
    /\ UNCHANGED <<data, current_round_index, current_frame_index>>

ProgressVisualization ==
    /\ call = Idle
    /\ LET step == progress_visualization(data, current_round_index, current_frame_index) IN
         /\ call' = [op |-> "progress_visualization"]
         /\ current_round_index' = step.round
         /\ current_frame_index' = step.frame
         /\ drawn' = IF step.shown.ok THEN Some(step.shown.val) ELSE drawn
         /\ result' = step.ret
    /\ UNCHANGED data

NextViz ==
    \/ DrawRoundStart
    \/ Revisualize
    \/ ProgressVisualization
    \/ Return

SpecViz == InitViz /\ [][NextViz]_vars

\* ------------------------------------------------------ the match in hand
TheRounds == IF data.gameRounds = None THEN <<>> ELSE data.gameRounds[1]

RoundInRange(ri) == 0 <= ri /\ ri < Len(TheRounds)

RoundOf(ri) == TheRounds[ri + 1]

HasFrameList(ri) == RoundInRange(ri) /\ RoundOf(ri).frames # None

FramesOf(ri) == RoundOf(ri).frames[1]

FrameInRange(ri, fi) == HasFrameList(ri) /\ 0 <= fi /\ fi < Len(FramesOf(ri))

\* ------------------------------------------------------------------ C1
\* C1 (as claimed): get_game_round and get_frame check every index, the
\* negative ones included, against the length before indexing: a call with
\* a negative or too large round or frame index returns no round or frame.
C1_IndexChecked ==
    /\ (call.op = "get_game_round" /\ ~RoundInRange(call.round_index))
          => ~result.ok
    /\ (call.op = "get_frame" /\ ~FrameInRange(call.round_index, call.frame_index))
          => ~result.ok

\* ------------------------------------------------------------------ C2
\* C2: for a round r with a frame list of length N, get_frame(r, f) returns
\* the frame stored at position f when 0 <= f < N, and fails with the
\* out-of-range error when f >= N.
C2_GetFrame ==
    (call.op = "get_frame" /\ HasFrameList(call.round_index) /\ call.frame_index >= 0)
       => IF call.frame_index < Len(FramesOf(call.round_index))
          THEN result = Ok(FramesOf(call.round_index)[call.frame_index + 1])
          ELSE result = Err(ErrFrameBounds)

\* get_frame(r, N) on a round of N >= 2 frames fails with the out-of-range error.
C2_Witness ==
    /\ call.op = "get_frame"
    /\ HasFrameList(call.round_index)
    /\ Len(FramesOf(call.round_index)) >= 2
    /\ call.frame_index = Len(FramesOf(call.round_index))
    /\ result = Err(ErrFrameBounds)

\* ------------------------------------------------------------------ C3
FrameAccessors ==
    {"get_frame", "get_player_at_frame", "is_player_alive", "get_player_hp",
     "get_round_stats", "get_all_team_routines"}

\* C3: on a round whose frame section is absent, every frame and player
\* accessor fails with the data-absence error of the frames lookup,
\* whatever the frame index, player index, side or window length.
C3_DataAbsent ==
    (call.op \in FrameAccessors /\ RoundInRange(call.round_index)
        /\ RoundOf(call.round_index).frames = None)
       => result = Err(ErrNoFrames)

\* get_round_stats was called on the second round, which has no frame
\* section, while the first round has frames.
C3_Witness ==
    /\ call.op = "get_round_stats"
    /\ call.round_index = 1
    /\ RoundInRange(1)
    /\ RoundOf(1).frames = None
    /\ HasFrameList(0)
    /\ Len(FramesOf(0)) > call.frame_index
    /\ call.frame_index >= 0
    /\ result = Err(ErrNoFrames)

\* ----------------------------------------------------------------- C10
SideOfString(s) == IF s = "CT" THEN "TeamType.CT" ELSE "TeamType.T"

\* C10: for an in-range round r and frame f whose T-side player list is
\* present, get_round_stats(r, f) returns the round's winning side and end
\* reason, the CT side's alive count and equipment value of frame f, and one
\* player entry per T-side player of frame f, in list order.
C10_RoundStats ==
    (call.op = "get_round_stats" /\ FrameInRange(call.round_index, call.frame_index)
        /\ FramesOf(call.round_index)[call.frame_index + 1].t.players # None)
       => LET round == RoundOf(call.round_index)
              frame == FramesOf(call.round_index)[call.frame_index + 1]
              t_players == frame.t.players[1]
          IN
          /\ result.ok
          /\ result.val.winning_side = SideOfString(round.winningSide)
          /\ result.val.round_end_reason = round.roundEndReason
          /\ result.val.opponents_alive = frame.ct.alivePlayers
          /\ result.val.opponent_equipment_value = frame.ct.teamEqVal
          /\ Len(result.val.players) = Len(t_players)
          /\ \A i \in 1..Len(t_players) :
                /\ result.val.players[i].name = t_players[i].name
                /\ result.val.players[i].hp = t_players[i].hp

\* The scenario of the specification: a round won by CT by defusal, queried
\* at a frame with 3 CT players alive and a CT equipment value of 4000.
C10_Witness ==
    /\ call.op = "get_round_stats"
    /\ FrameInRange(call.round_index, call.frame_index)
    /\ RoundOf(call.round_index).winningSide = "CT"
    /\ RoundOf(call.round_index).roundEndReason = "BombDefused"
    /\ FramesOf(call.round_index)[call.frame_index + 1].ct.alivePlayers = 3
    /\ FramesOf(call.round_index)[call.frame_index + 1].ct.teamEqVal = 4000
    /\ result.ok
    /\ result.val.winning_side = "TeamType.CT"
    /\ result.val.opponents_alive = 3
    /\ result.val.opponent_equipment_value = 4000
    /\ Len(result.val.players) = TeamSize

\* ------------------------------------------- the extraction that returned
Extracted == call.op = "get_all_team_routines" /\ result.ok

\* The frames of the round the extraction ran on.
XFrames == PyGetItem(TheRounds, call.round_index).val.frames[1]

SideList(frame, side) ==
    IF TeamOfFrame(frame, side).players = None THEN <<>>
    ELSE TeamOfFrame(frame, side).players[1]

\* The roster names of a side in slot order: the keys of the routines dict.
SlotNames(side) ==
    FrozensetIter(PlayerNamesOfList(SideList(XFrames[1], side)), call.hash_order)

SlotRoutines(side) ==
    IF side = "t" THEN result.val.t_side.routines ELSE result.val.ct_side.routines

RECURSIVE PointCount(_)
PointCount(routines) ==
    IF routines = <<>> THEN 0 ELSE Len(Head(routines)) + PointCount(Tail(routines))

\* The entries of one frame's side list that carry the name.
EntriesIn(frame, side, n) ==
    SelectSeq(SideList(frame, side), LAMBDA p : p.name = n)

\* The points of the name in frames lo..hi (from 1), in frame and list order.
RECURSIVE Positions(_, _, _, _, _)
Positions(frames, side, n, lo, hi) ==
    IF lo > hi THEN <<>>
    ELSE [i \in 1..Len(EntriesIn(frames[lo], side, n)) |->
            <<EntriesIn(frames[lo], side, n)[i].x, EntriesIn(frames[lo], side, n)[i].y>>]
         \o Positions(frames, side, n, lo + 1, hi)

\* The number of frames whose side list names the player.
FramesListing(frames, side, n) ==
    Cardinality({f \in DOMAIN frames : EntriesIn(frames[f], side, n) # <<>>})

CeilDiv(n, l) == (n + l - 1) \div l

\* The names of a list in order of first appearance.
FirstAppearance(names) ==
    LET firsts == {i \in DOMAIN names : \A j \in 1..(i - 1) : names[j] # names[i]}
        Rank(i) == Cardinality({j \in firsts : j <= i})
    IN [k \in 1..Cardinality(firsts) |-> names[CHOOSE i \in firsts : Rank(i) = k]]

\* ------------------------------------------------------------------ C4
\* C4 (as claimed): after a successful extraction with window length
\* L >= 1 over N frames, every roster player's routine list has ceil(N / L)
\* entries, and their point counts sum to the number of frames whose side
\* list names the player.
C4_Original ==
    (Extracted /\ call.routine_length >= 1)
       => \A side \in Sides :
            /\ Len(SlotNames(side)) = Len(SlotRoutines(side))
            /\ \A i \in 1..Len(SlotRoutines(side)) :
                  /\ Len(SlotRoutines(side)[i]) = CeilDiv(Len(XFrames), call.routine_length)
                  /\ PointCount(SlotRoutines(side)[i])
                        = FramesListing(XFrames, side, SlotNames(side)[i])

\* C4 (amended): after a successful extraction with window length L >= 1
\* over N frames, every roster player's routine list has ceil(N / L)
\* entries, and their point counts sum to the number of entries that carry
\* the player's name in that side's lists of the N frames (a frame that
\* lists the name twice counts twice).
C4_Amended ==
    (Extracted /\ call.routine_length >= 1)
       => \A side \in Sides :
            /\ Len(SlotNames(side)) = Len(SlotRoutines(side))
            /\ \A i \in 1..Len(SlotRoutines(side)) :
                  /\ Len(SlotRoutines(side)[i]) = CeilDiv(Len(XFrames), call.routine_length)
                  /\ PointCount(SlotRoutines(side)[i])
                        = Len(Positions(XFrames, side, SlotNames(side)[i], 1, Len(XFrames)))

\* A successful extraction of 3 frames with window length 2, one frame
\* listing a roster player twice: that player has 2 routines and 4 points.
C4_Witness ==
    /\ Extracted
    /\ call.routine_length = 2
    /\ Len(XFrames) = 3
    /\ \E side \in Sides : \E i \in 1..Len(SlotRoutines(side)) :
          /\ \E f \in DOMAIN XFrames :
                Len(EntriesIn(XFrames[f], side, SlotNames(side)[i])) = 2
          /\ Len(SlotRoutines(side)[i]) = 2
          /\ PointCount(SlotRoutines(side)[i]) = 4

\* ------------------------------------------------------------------ C5
\* C5: after a successful extraction with window length L >= 1 over N
\* frames, routine k (from 0) of a roster player holds exactly that player's
\* positions of frames k*L .. min((k+1)*L, N) - 1, in frame order; there
\* are ceil(N / L) routines, so only the last chunk can be shorter than L.
C5_Chunks ==
    (Extracted /\ call.routine_length >= 1)
       => \A side \in Sides :
            /\ Len(SlotNames(side)) = Len(SlotRoutines(side))
            /\ \A i \in 1..Len(SlotRoutines(side)) :
                  /\ Len(SlotRoutines(side)[i]) = CeilDiv(Len(XFrames), call.routine_length)
                  /\ \A k \in 1..Len(SlotRoutines(side)[i]) :
                        SlotRoutines(side)[i][k]
                           = Positions(XFrames, side, SlotNames(side)[i],
                                       (k - 1) * call.routine_length + 1,
                                       Min(k * call.routine_length, Len(XFrames)))

\* The scenario of the specification: 3 frames, window length 2; a player
\* listed once in every frame has a routine of the first two positions and
\* a routine of the third.
C5_Witness ==
    /\ Extracted
    /\ call.routine_length = 2
    /\ Len(XFrames) = 3
    /\ \E i \in 1..Len(SlotRoutines("t")) :
          /\ SlotNames("t")[i] = "ann"
          /\ \A f \in 1..3 : Len(EntriesIn(XFrames[f], "t", "ann")) = 1
          /\ SlotRoutines("t")[i]
                = << <<Positions(XFrames, "t", "ann", 1, 1)[1],
                       Positions(XFrames, "t", "ann", 2, 2)[1]>>,
                     <<Positions(XFrames, "t", "ann", 3, 3)[1]>> >>

\* ------------------------------------------------------------------ C6
\* C6 (as claimed): after every successful extraction, the point counts of
\* a roster player's routines sum to the round's frame count N.  Stated for
\* the window lengths the specification admits, L >= 1.
C6_Original ==
    (Extracted /\ call.routine_length >= 1)
       => \A side \in Sides : \A i \in 1..Len(SlotRoutines(side)) :
             PointCount(SlotRoutines(side)[i]) = Len(XFrames)

\* Each of the N frames lists the name exactly once for the side.
ListedOncePerFrame(side, n) ==
    \A f \in DOMAIN XFrames : Len(EntriesIn(XFrames[f], side, n)) = 1

\* C6 (amended): after every successful extraction with window length
\* L >= 1, the point counts of a roster player's routines sum to N minus
\* the frames that do not list the player plus the player's repeated
\* entries; the sum is N when every frame lists the player exactly once.
C6_Amended ==
    (Extracted /\ call.routine_length >= 1)
       => \A side \in Sides :
            /\ Len(SlotNames(side)) = Len(SlotRoutines(side))
            /\ \A i \in 1..Len(SlotRoutines(side)) :
                  LET n == SlotNames(side)[i]
                      missing == Cardinality({f \in DOMAIN XFrames :
                                                EntriesIn(XFrames[f], side, n) = <<>>})
                      repeated == Len(Positions(XFrames, side, n, 1, Len(XFrames)))
                                     - FramesListing(XFrames, side, n)
                  IN
                  /\ PointCount(SlotRoutines(side)[i]) = Len(XFrames) - missing + repeated
                  /\ ListedOncePerFrame(side, n)
                        => PointCount(SlotRoutines(side)[i]) = Len(XFrames)

\* A successful extraction of 3 frames in which a roster player is missing
\* from one frame's list: the player's routines hold 2 points.
C6_Witness ==
    /\ Extracted
    /\ call.routine_length >= 1
    /\ Len(XFrames) = 3
    /\ \E side \in Sides : \E i \in 1..Len(SlotRoutines(side)) :
          /\ FramesListing(XFrames, side, SlotNames(side)[i]) = 2
          /\ PointCount(SlotRoutines(side)[i]) = 2

\* ------------------------------------------------------------------ C7
\* C7 (as claimed): get_all_team_routines called with a window length
\* L < 1 on a round that has frames fails and returns no team structures.
C7_WindowRejected ==
    (call.op = "get_all_team_routines" /\ call.routine_length < 1
        /\ HasFrameList(call.round_index) /\ Len(FramesOf(call.round_index)) >= 1)
       => ~result.ok

\* ------------------------------------------------------------------ C8
\* C8 (as claimed): slot i of each side's team structure holds the routines
\* of the i-th distinct name, in order of first appearance, of that side's
\* player list of frame 0.
C8_SlotOrder ==
    (Extracted /\ call.routine_length >= 1)
       => \A side \in Sides :
            LET roster == FirstAppearance(PlayerNamesOfList(SideList(XFrames[1], side))) IN
            /\ Len(roster) = Len(SlotRoutines(side))
            /\ \A i \in 1..Len(SlotRoutines(side)) :
                  \A k \in 1..Len(SlotRoutines(side)[i]) :
                     SlotRoutines(side)[i][k]
                        = Positions(XFrames, side, roster[i],
                                    (k - 1) * call.routine_length + 1,
                                    Min(k * call.routine_length, Len(XFrames)))

\* ------------------------------------------------------------------ C9
DistinctNames(players) == {players[i].name : i \in DOMAIN players}

\* C9: from_routines_list fails with the roster-size error for every input
\* whose length is not 5 and succeeds for every input of length 5, keeping
\* the entries in input order; every team structure has exactly 5 slots, and
\* get_all_team_routines succeeds only if each side's frame-0 roster has
\* exactly 5 distinct names.
C9_RosterSize ==
    /\ call.op = "from_routines_list"
          => IF Len(call.routines) # 5
             THEN result = Err(ErrRoster)
             ELSE /\ result.ok
                  /\ Len(result.val.routines) = 5
                  /\ \A i \in 1..5 : result.val.routines[i] = call.routines[i]
    /\ Extracted
          => \A side \in Sides :
                /\ Len(SlotRoutines(side)) = 5
                /\ Cardinality(DistinctNames(SideList(XFrames[1], side))) = 5

\* from_routines_list was given 5 routine lists of different lengths and
\* returned them as the 5 slots.
C9_Witness ==
    /\ call.op = "from_routines_list"
    /\ Len(call.routines) = 5
    /\ Len(call.routines[5]) = 5
    /\ Len(call.routines[1]) = 1
    /\ result.ok
    /\ result.val.routines[5] = call.routines[5]

\* ----------------------------------------------------------------- C12
\* Some frame of the round lists, for some side, a name that the side's
\* frame-0 list does not hold.
ListsUnknownName(frames) ==
    \E side \in Sides : \E f \in DOMAIN frames :
       \E n \in DistinctNames(SideList(frames[f], side)) :
          n \notin DistinctNames(SideList(frames[1], side))

\* After an extraction with window length L >= 1 that returned, the routine
\* of every chunk holding a frame that does not list a roster player has
\* that player's points of the chunk's other frames and none for that frame.
MissingPlayerSkipped ==
    (Extracted /\ call.routine_length >= 1)
       => \A side \in Sides :
            /\ Len(SlotNames(side)) = Len(SlotRoutines(side))
            /\ \A i \in 1..Len(SlotRoutines(side)) :
                  \A f \in DOMAIN XFrames :
                     EntriesIn(XFrames[f], side, SlotNames(side)[i]) = <<>>
                        => LET k == ((f - 1) \div call.routine_length) + 1
                               lo == (k - 1) * call.routine_length + 1
                               hi == Min(k * call.routine_length, Len(XFrames))
                           IN
                           /\ k <= Len(SlotRoutines(side)[i])
                           /\ SlotRoutines(side)[i][k]
                                 = Positions(XFrames, side, SlotNames(side)[i], lo, f - 1)
                                   \o Positions(XFrames, side, SlotNames(side)[i], f + 1, hi)

\* C12 (as claimed): the roster of a side is fixed by frame 0: if any frame
\* of the round lists for a side a name that is not in the side's frame-0
\* list, get_all_team_routines fails and returns no team structures, while
\* a roster player missing from a frame causes no error and gets no point
\* for that frame.
C12_UnknownNameFails ==
    /\ (call.op = "get_all_team_routines" /\ HasFrameList(call.round_index)
           /\ Len(FramesOf(call.round_index)) >= 1
           /\ ListsUnknownName(FramesOf(call.round_index)))
          => ~result.ok
    /\ MissingPlayerSkipped

\* The same for the window lengths L >= 1 alone: every frame is then read,
\* and the unknown name is looked up in the routines dict.
C12_PositiveWindow ==
    /\ (call.op = "get_all_team_routines" /\ call.routine_length >= 1
           /\ HasFrameList(call.round_index)
           /\ Len(FramesOf(call.round_index)) >= 1
           /\ ListsUnknownName(FramesOf(call.round_index)))
          => ~result.ok
    /\ MissingPlayerSkipped

\* ----------------------------------------------------------------- C11
EveryRoundHasFrames ==
    /\ Len(TheRounds) >= 1
    /\ \A r \in DOMAIN TheRounds :
          TheRounds[r].frames # None /\ Len(TheRounds[r].frames[1]) >= 1

\* The cursor names an existing frame, and that frame is the one drawn.
CursorDrawn ==
    /\ FrameInRange(current_round_index, current_frame_index)
    /\ drawn = Some(<<current_round_index, current_frame_index>>)

AtLastFrame ==
    /\ current_round_index = Len(TheRounds) - 1
    /\ current_frame_index = Len(FramesOf(current_round_index)) - 1

\* C11 (as claimed): on a match where every round has at least one frame,
\* with the cursor on a drawn frame (as draw_round_start leaves it), a call
\* of progress_visualization at the last frame of the last round returns
\* False and leaves the cursor; at any other frame it returns True and moves
\* the cursor by one frame, to the next frame of the round or to frame 0 of
\* the next round, so the cursor names an existing, drawn frame again.
C11_Progress ==
    [][(call = Idle /\ call'.op = "progress_visualization"
           /\ EveryRoundHasFrames /\ CursorDrawn)
          => IF AtLastFrame
             THEN /\ result' = Ok(FALSE)
                  /\ current_round_index' = current_round_index
                  /\ current_frame_index' = current_frame_index
             ELSE /\ result' = Ok(TRUE)
                  /\ IF current_frame_index < Len(FramesOf(current_round_index)) - 1
                     THEN /\ current_round_index' = current_round_index
                          /\ current_frame_index' = current_frame_index + 1
                     ELSE /\ current_round_index' = current_round_index + 1
                          /\ current_frame_index' = 0
                  /\ drawn' = Some(<<current_round_index', current_frame_index'>>)]_vars

====
